---- MODULE Spec2Model ----
(***************************************************************************)
(* Session-authenticated access control of solid-js-user-authentication.   *)
(*                                                                         *)
(* The repository holds two revisions of the auth library side by side:    *)
(*   "A"  src/lib/auth.ts            registerUser / loginUser / getUser    *)
(*        (session cookie "auth_session", payload {id, username})          *)
(*   "B"  src/lib/auth/ (hash.ts holds hash.ts + db.ts, unnamed/part_001   *)
(*        is server.ts, unnamed/part_002 is index.ts)                      *)
(*        login / register / logout / getUser (query) / requireUser        *)
(*        (default session cookie, payload {userId})                       *)
(* Both work on a users table of the same schema.  Every SQL statement is  *)
(* atomic; a handler is a sequence of statements with an await between     *)
(* them, and other writers of the table (another request, an operator      *)
(* script on the same sqlite file) may run between two statements.         *)
(***************************************************************************)
EXTENDS Naturals, Sequences, FiniteSets, TLC

\* ------------------------------------------------------------------ bounds
\* Number of user ids the store ever hands out (ids are never reused).
MaxIds == 2

\* ------------------------------------------------------------- input sets
Usernames == {"alice", "bob"}
ShortUsernames == {"al"}
Passwords == {"correct-horse-battery", "tr0ub4dor-and-three"}
ShortPasswords == {"hunter2"}
AnyUsername == Usernames \cup ShortUsernames
AnyPassword == Passwords \cup ShortPasswords

Ids == 1..MaxIds
\* A missing / undefined / empty id: falsy in `!session.data.id`, `!user.id`.
NoId == 0

VARIABLES
  rev,        \* which revision of the auth library this deployment runs
  users,      \* the users table: id -> [username, pass_hash]
  nextId,     \* next fresh id (randomBytes(16) / randomblob(16): never reused)
  regOpen,    \* process.env.REGISTRATION_ENABLED === "true"
  sudo,       \* process.env.SUDO_MODE === "true"
  sessA,      \* the client's "auth_session" cookie (revision A)
  sessB,      \* the client's default session cookie (revision B)
  h,          \* the request handler in flight, or idle
  q,          \* the home-route request in flight (revision B): the request's
              \* query cache entry for "user" and the consumers awaiting it
  guard,      \* the RouteGuard component instance on the client's page
  db,         \* lib/db.ts: the module's notes-database handle and its file
  authDb      \* auth.ts: the module's users-database handle and the
              \* getAuthDb() calls in flight

storeVars == <<users, nextId>>
\* The server process: its revision, its switches and its module state.
envVars == <<rev, regOpen, sudo, db, authDb>>
sessVars == <<sessA, sessB>>
vars == <<rev, users, nextId, regOpen, sudo, sessA, sessB, h, q, guard, db,
         authDb>>

\* ---------------------------------------------------------- Password Hasher
saltRounds == 12

\* Variant: the password stored as it came, not as a bcrypt digest.
hashPlain(password) == [alg |-> "plain", cost |-> 0, of |-> password]

\* bcrypt.hash(password, saltRounds): the digest encodes algorithm, cost and
\* the password it was derived from (the salt is part of the encoding).
hashPassword(password) ==
  [alg |-> "bcrypt", cost |-> saltRounds, of |-> password]

\* bcrypt.compare(password, hash)
verifyPassword(password, hash) ==
  hash.alg = "bcrypt" /\ hash.of = password

\* ------------------------------------------------------------- JS values
Null == [tag |-> "null", id |-> NoId, username |-> ""]
Undefined == [tag |-> "undefined", id |-> NoId, username |-> ""]
Obj(id, username) == [tag |-> "object", id |-> id, username |-> username]
\* JS truthiness of a value of these shapes: every object is truthy, also {}.
Truthy(v) == v.tag = "object"

\* ------------------------------------------------------------ users table
UsernameTaken(username) ==
  \E i \in DOMAIN users : users[i].username = username

RowOf(username) ==
  CHOOSE i \in DOMAIN users : users[i].username = username

\* SELECT id FROM users WHERE username = ?  (auth.ts getUserId)
getUserId(username) ==
  IF UsernameTaken(username) THEN RowOf(username) ELSE NoId

\* SELECT id, username FROM users WHERE username = ?
findUserByUsername(username) ==
  IF UsernameTaken(username)
    THEN Obj(RowOf(username), users[RowOf(username)].username)
    ELSE Undefined

\* Variant: SELECT * FROM users WHERE id = ? - the whole row.
findUserRow(id) ==
  IF id \in DOMAIN users
    THEN [tag |-> "object", id |-> id, username |-> users[id].username,
          pass_hash |-> users[id].pass_hash]
    ELSE Undefined

\* SELECT id, username FROM users WHERE id = ?
findUserById(id) ==
  IF id \in DOMAIN users THEN Obj(id, users[id].username) ELSE Undefined

\* getUserPasswordHash found no row: undefined.
NoHash == [alg |-> "none", cost |-> 0, of |-> ""]

\* SELECT pass_hash FROM users WHERE username = ?: result?.pass_hash
getUserPasswordHash(username) ==
  IF UsernameTaken(username) THEN users[RowOf(username)].pass_hash ELSE NoHash

\* SELECT pass_hash FROM users WHERE id = ? (auth.ts; it throws when there is
\* no row, which its caller has excluded).
getStoredPasswordHash(userId) == users[userId].pass_hash

\* INSERT INTO users ...: the table with the row added (the caller has checked
\* UNIQUE(username), which makes the statement throw instead).
InsertUser(id, username, hash) ==
  [i \in DOMAIN users \cup {id} |->
     IF i = id THEN [username |-> username, pass_hash |-> hash] ELSE users[i]]

\* Variant: a users table without the UNIQUE constraint on username.
NoConstraint(username) == FALSE

\* username TEXT UNIQUE NOT NULL: a statement that would leave two rows with
\* `username` violates the constraint and throws; the table stays as it was.
UniqueViolation(username) == UsernameTaken(username)

DeleteRow(id) == [i \in DOMAIN users \ {id} |-> users[i]]

\* UPDATE users SET username = ? WHERE id = ?: the table afterwards.
UpdateUsername(id, username) ==
  [i \in DOMAIN users |->
     IF i = id THEN [users[i] EXCEPT !.username = username] ELSE users[i]]

\* Variant: an UPDATE that writes nothing.
UpdateNothing(id, hash) == users

\* UPDATE users SET pass_hash = ? WHERE id = ?: the table afterwards.
UpdatePassHash(id, hash) ==
  [i \in DOMAIN users |->
     IF i = id THEN [users[i] EXCEPT !.pass_hash = hash] ELSE users[i]]

\* Variant: the change count of a statement is not looked at.
AlwaysChanged(id) == FALSE

\* result.changes === 0: the UPDATE / DELETE ... WHERE id = ? matched no row.
NoRowChanged(id) == id \notin DOMAIN users

\* What a call leaves behind: the value it returns or throws, the users
\* table, and whether it called hashPassword.
Outcome(res, table, hashed) ==
  [res |-> res, users |-> table, hashed |-> hashed]

\* ---------------------------------------------------------------- sessions
EmptyA == [id |-> NoId, username |-> ""]
EmptyB == [userId |-> NoId]
\* A cookie is a sealed payload; `ok` is whether it still unseals with the
\* server's secret (FALSE after tampering or corruption).
SealA(data) == [ok |-> TRUE, data |-> data]
SealB(data) == [ok |-> TRUE, data |-> data]
\* Variant: a session layer that hands out the payload without unsealing it.
UnsealUnchecked(cookie) == cookie.data

\* h3 getSession: unsealSession(...).catch(() => {}) - a cookie that does not
\* unseal yields a fresh session with empty data, it does not throw.
UnsealA(cookie) == IF cookie.ok THEN cookie.data ELSE EmptyA
UnsealB(cookie) == IF cookie.ok THEN cookie.data ELSE EmptyB

\* ------------------------------------------------------------ auth handler
Idle == [kind |-> "idle", pc |-> "idle", username |-> "", password |-> "",
         uid |-> NoId, user |-> Undefined, dbUser |-> Undefined,
         queried |-> FALSE, hashed |-> FALSE, res |-> [tag |-> "none"]]

\* Results of revision A (RegistrationMessage) and of revision B's action.
Ok == [tag |-> "result", success |-> TRUE, error |-> <<>>]
Fail(msg) == [tag |-> "result", success |-> FALSE, error |-> msg]
ErrorB(msg) == [tag |-> "Error", message |-> msg]
RedirectTo(path) == [tag |-> "redirect", to |-> path]

\* A handler that returns nothing has returned.
Void == [tag |-> "void"]

\* A handler goes on to its next statement.
Continue == [tag |-> "none"]

Done(res) == [h EXCEPT !.pc = "done", !.res = res]

\* The cause text of an exception thrown by the store.
SqliteError == "SqliteError"
\* The cause text when the statement violated UNIQUE(username).
UniqueConstraintFailed == "SqliteError: UNIQUE constraint failed: users.username"

\* ------------------------------------------------- home route (revision B)
\* Server functions of one request that run concurrently, as the resources
\* Home creates with createAsync do; each has the shape of privateData:
\* requireUser(), then getDbConnection() -> requireUser().
Consumers == {"c1", "c2"}
\* requireUser() calls one consumer makes before it returns the private data.
CallsPerConsumer == 2

NoRequest == [active |-> FALSE, cache |-> [tag |-> "absent"], runs |-> 0,
              lookups |-> 0, redirected |-> FALSE,
              at |-> [c \in Consumers |-> "ready"],
              calls |-> [c \in Consumers |-> 0],
              got |-> [c \in Consumers |-> Undefined]]

\* No request of the client is in flight.
Quiet == h.kind = "idle" /\ ~q.active

\* ----------------------------------------------- RouteGuard (RouteGuard.tsx)
\* Variant: children rendered whatever the signal says.
ShowAlways(when) == TRUE

\* <Show when={isUser()}>{props.children}</Show>: are the children rendered.
Show(when) == when

\* No RouteGuard on the page.  userAuthStatus is the createAsync accessor:
\* "pending" until ensureAuthenticated() settles, then "true" or "undefined".
Unmounted == [mounted |-> FALSE, userAuthStatus |-> "undefined",
              isUser |-> FALSE, children |-> FALSE, navigated |-> FALSE,
              effectDue |-> FALSE]

\* The guard is waiting for the answer of the ensureAuthenticated() in flight.
GuardAwaits ==
  guard.mounted /\ guard.userAuthStatus = "pending"
    /\ h.kind = "ensureAuthenticated"

\* let db = null, and no file at DB_PATH yet.
NotOpened == [handle |-> FALSE, file |-> FALSE]
\* db = new Database(dbPath), the notes table created when the file is new.
Opened == [handle |-> TRUE, file |-> TRUE]

\* Server functions of one process that call getAuthDb() concurrently (the
\* resources of one page render, requests that overlap).
AuthDbCallers == {"r1", "r2", "r3"}
\* let db = null (auth.ts); handles are numbered as they are constructed.
NoHandle == 0
\* A process that has just started: no handle, no call made.
NoAuthDb == [handle |-> NoHandle, constructed |-> 0, execs |-> 0,
             at |-> [c \in AuthDbCallers |-> "idle"],
             got |-> [c \in AuthDbCallers |-> NoHandle]]

Init ==
  /\ rev \in {"A", "B"}
  /\ users = <<>>
  /\ nextId = 1
  /\ regOpen \in (IF rev = "A" THEN BOOLEAN ELSE {FALSE})
  /\ sudo \in BOOLEAN
  /\ sessA = SealA(EmptyA)
  /\ sessB = SealB(EmptyB)
  /\ h = Idle
  /\ q = NoRequest
  /\ guard = Unmounted
  /\ db = NotOpened
  /\ authDb = NoAuthDb

\* ===================================================== revision A: auth.ts
\* The message registerUser builds in its catch block.
RegisterError(username, cause) ==
  Fail(<<"Failed to create user ", username, cause>>)

\* registerUser after the switch, up to `if (userId) return ...`: its result,
\* or Continue.  storeFails is the statement throwing.
RegisterUserLookup(username, storeFails) ==
  IF storeFails THEN RegisterError(username, SqliteError)
  ELSE IF getUserId(username) # NoId THEN Fail(<<"Error, user already exists">>)
  ELSE Continue

\* registerUser(username, password) run without interruption on a working
\* store: the value it returns.
registerUser(username, password) ==
  IF ~regOpen THEN Fail(<<"Registration is currently closed">>)
  ELSE IF RegisterUserLookup(username, FALSE) # Continue
    THEN RegisterUserLookup(username, FALSE)
  ELSE Ok

\* registerUser(username, password), up to its exists-check.
StartRegisterUser(username, password) ==
  /\ Quiet
  /\ rev = "A"
  /\ nextId <= MaxIds
  /\ h' = IF ~regOpen
            THEN [Idle EXCEPT !.kind = "registerUser", !.pc = "done",
                              !.username = username, !.password = password,
                              !.res = registerUser(username, password)]
            ELSE [Idle EXCEPT !.kind = "registerUser", !.pc = "getUserId",
                              !.username = username, !.password = password]
  /\ UNCHANGED <<storeVars, envVars, sessVars, q, guard>>

RegisterUserCheck(storeFails) ==
  /\ h.kind = "registerUser" /\ h.pc = "getUserId"
  /\ h' = IF RegisterUserLookup(h.username, storeFails) # Continue
            THEN Done(RegisterUserLookup(h.username, storeFails))
            ELSE [h EXCEPT !.pc = "insert"]
  /\ UNCHANGED <<storeVars, envVars, sessVars, q, guard>>

\* hashPassword, then INSERT INTO users (username, pass_hash); the id is the
\* column default hex(randomblob(16)).  A UNIQUE violation throws and is caught.
RegisterUserInsert(storeFails) ==
  /\ h.kind = "registerUser" /\ h.pc = "insert"
  /\ IF storeFails \/ UniqueViolation(h.username)
       THEN /\ h' = [Done(RegisterError(h.username,
                            IF storeFails THEN SqliteError
                                          ELSE UniqueConstraintFailed))
                      EXCEPT !.hashed = TRUE]
            /\ UNCHANGED storeVars
       ELSE /\ users' = InsertUser(nextId, h.username, hashPassword(h.password))
            /\ nextId' = nextId + 1
            /\ h' = [Done(Ok) EXCEPT !.uid = nextId, !.hashed = TRUE]
  /\ UNCHANGED <<envVars, sessVars, q, guard>>

\* loginUser(username, password)
StartLoginUser(username, password) ==
  /\ Quiet
  /\ rev = "A"
  /\ h' = [Idle EXCEPT !.kind = "loginUser", !.pc = "getUserId",
                       !.username = username, !.password = password]
  /\ UNCHANGED <<storeVars, envVars, sessVars, q, guard>>

\* The message loginUser builds in its catch block.
LoginError(cause) == Fail(<<"Error Logging in User: ", cause>>)

\* loginUser up to `if (!userId) return ...`: its result, or Continue.
LoginUserLookup(username, storeFails) ==
  IF storeFails THEN LoginError(SqliteError)
  ELSE IF getUserId(username) = NoId
    THEN Fail(<<"Error, user does not exists">>)
  ELSE Continue

LoginUserGetUserId(storeFails) ==
  /\ h.kind = "loginUser" /\ h.pc = "getUserId"
  /\ h' = IF LoginUserLookup(h.username, storeFails) # Continue
            THEN Done(LoginUserLookup(h.username, storeFails))
            ELSE [h EXCEPT !.pc = "getHash", !.uid = getUserId(h.username)]
  /\ UNCHANGED <<storeVars, envVars, sessVars, q, guard>>

\* What loginUser does once getUserId has returned userId: read the hash of
\* that id, verify, and on a match update the session.
LoginUserOutcome(userId, username, password, storeFails) ==
  IF storeFails THEN LoginError(SqliteError)
  ELSE IF userId \notin DOMAIN users
    THEN LoginError("User with id " \o ToString(userId) \o " not found")
  ELSE IF ~verifyPassword(password, getStoredPasswordHash(userId))
    THEN Fail(<<"Invalid password">>)
  ELSE Ok

\* loginUser(username, password) run without interruption on a working store:
\* the value it returns.
loginUser(username, password) ==
  IF LoginUserLookup(username, FALSE) # Continue
    THEN LoginUserLookup(username, FALSE)
    ELSE LoginUserOutcome(getUserId(username), username, password, FALSE)

\* session.update((d) => { d.id = userId; d.username = username })
LoginUserSession(userId, username) ==
  SealA([id |-> userId, username |-> username])

LoginUserVerify(storeFails) ==
  /\ h.kind = "loginUser" /\ h.pc = "getHash"
  /\ LET out == LoginUserOutcome(h.uid, h.username, h.password, storeFails) IN
       /\ h' = Done(out)
       /\ sessA' = IF out.success
                     THEN LoginUserSession(h.uid, h.username)
                     ELSE sessA
  /\ UNCHANGED <<storeVars, envVars, sessB, q, guard>>

\* ------------------------------------------- walkthrough.md loginUser
\* The loginUser listed in the walkthrough.  It differs from auth.ts in three
\* places: verifyPassword(...) is called without await, its result isVerified
\* is never tested, and session.update(...) is called without await.
StartWalkthroughLoginUser(username, password) ==
  /\ Quiet
  /\ rev = "A"
  /\ h' = [Idle EXCEPT !.kind = "walkthroughLoginUser", !.pc = "getUserId",
                       !.username = username, !.password = password]
  /\ UNCHANGED <<storeVars, envVars, sessVars, q, guard>>

\* `const userId = await getUserId(username); if (!userId) return ...`
WalkthroughLoginUserGetUserId(storeFails) ==
  /\ h.kind = "walkthroughLoginUser" /\ h.pc = "getUserId"
  /\ h' = IF LoginUserLookup(h.username, storeFails) # Continue
            THEN Done(LoginUserLookup(h.username, storeFails))
            ELSE [h EXCEPT !.pc = "getHash", !.uid = getUserId(h.username)]
  /\ UNCHANGED <<storeVars, envVars, sessVars, q, guard>>

\* What the listing returns once getUserId has returned userId:
\* getStoredPasswordHash throws for a missing row; the promise of
\* verifyPassword is stored in isVerified and not looked at again.
WalkthroughLoginUserOutcome(userId, username, password, storeFails) ==
  IF storeFails THEN LoginError(SqliteError)
  ELSE IF userId \notin DOMAIN users
    THEN LoginError("User with id " \o ToString(userId) \o " not found")
  ELSE Ok

\* `session.update({ id: userId, username }); return { success: true }`:
\* the update is not awaited, so the cookie may (landed) or may not have been
\* written when the response leaves.
WalkthroughLoginUserUpdate(storeFails, landed) ==
  /\ h.kind = "walkthroughLoginUser" /\ h.pc = "getHash"
  /\ LET out == WalkthroughLoginUserOutcome(h.uid, h.username, h.password,
                                            storeFails) IN
       /\ h' = Done(out)
       /\ sessA' = IF out.success /\ landed
                     THEN LoginUserSession(h.uid, h.username)
                     ELSE sessA
  /\ UNCHANGED <<storeVars, envVars, sessB, q, guard>>

\* ------------------------------- auth.ts updateUserPassword / deleteUser
\* The messages the two build in their catch blocks.
UpdateError(userId, cause) ==
  Fail(<<"Failed to update password for user ", ToString(userId), cause>>)
DeleteError(userId, cause) ==
  Fail(<<"Failed to delete user ", ToString(userId), cause>>)

\* updateUserPassword up to `if (!result) return ...`: its result, or Continue.
UpdateUserPasswordLookup(userId, storeFails) ==
  IF storeFails THEN UpdateError(userId, SqliteError)
  ELSE IF userId \notin DOMAIN users THEN Fail(<<"Error, user does not exist">>)
  ELSE Continue

\* updateUserPassword(userId, newPassword) run without interruption.
updateUserPassword(userId, newPassword, storeFails) ==
  IF UpdateUserPasswordLookup(userId, storeFails) # Continue
    THEN Outcome(UpdateUserPasswordLookup(userId, storeFails), users, FALSE)
    ELSE Outcome(Ok, UpdatePassHash(userId, hashPassword(newPassword)), TRUE)

\* updateUserPassword(userId, newPassword), up to its exists-check.
StartUpdateUserPassword(userId, newPassword, storeFails) ==
  /\ Quiet /\ rev = "A"
  /\ h' = IF UpdateUserPasswordLookup(userId, storeFails) # Continue
            THEN [Idle EXCEPT !.kind = "updateUserPassword", !.pc = "done",
                              !.uid = userId, !.password = newPassword,
                              !.res = UpdateUserPasswordLookup(userId, storeFails)]
            ELSE [Idle EXCEPT !.kind = "updateUserPassword", !.pc = "update",
                              !.uid = userId, !.password = newPassword]
  /\ UNCHANGED <<storeVars, envVars, sessVars, q, guard>>

\* hashPassword, then UPDATE users SET pass_hash = ? WHERE id = ? (the change
\* count is not looked at).
UpdateUserPasswordWrite(storeFails) ==
  /\ h.kind = "updateUserPassword" /\ h.pc = "update"
  /\ IF storeFails
       THEN /\ h' = [Done(UpdateError(h.uid, SqliteError)) EXCEPT !.hashed = TRUE]
            /\ UNCHANGED users
       ELSE /\ h' = [Done(Ok) EXCEPT !.hashed = TRUE]
            /\ users' = UpdatePassHash(h.uid, hashPassword(h.password))
  /\ UNCHANGED <<nextId, envVars, sessVars, q, guard>>

\* deleteUser(userId) of auth.ts: SELECT and DELETE with no await between.
deleteUserA(userId, storeFails) ==
  IF storeFails THEN Outcome(DeleteError(userId, SqliteError), users, FALSE)
  ELSE IF userId \notin DOMAIN users
    THEN Outcome(Fail(<<"Error, user does not exist">>), users, FALSE)
  ELSE Outcome(Ok, DeleteRow(userId), FALSE)

CallDeleteUserA(userId, storeFails) ==
  /\ Quiet /\ rev = "A"
  /\ h' = [Idle EXCEPT !.kind = "deleteUserA", !.pc = "done", !.uid = userId,
                       !.res = deleteUserA(userId, storeFails).res]
  /\ users' = deleteUserA(userId, storeFails).users
  /\ UNCHANGED <<nextId, envVars, sessVars, q, guard>>

\* ------------------------------------------------------ auth.ts getAuthDb
\* getAuthDb() is called by c: `if (!db)` - with a handle there it returns
\* it at once; without, it starts getAuthDbPath() and awaits it.
GetAuthDbEnter(c) ==
  /\ rev = "A"
  /\ authDb.at[c] \in {"idle", "returned"}
  /\ authDb' = IF authDb.handle # NoHandle
                 THEN [authDb EXCEPT !.at[c] = "returned",
                                     !.got[c] = authDb.handle]
                 ELSE [authDb EXCEPT !.at[c] = "awaiting"]
  /\ UNCHANGED <<storeVars, rev, regOpen, sudo, db, sessVars, h, q, guard>>

\* c's await getAuthDbPath() resumes: db = new Database(path), db.exec(CREATE
\* TABLE IF NOT EXISTS users ...), return db - without another look at db.
GetAuthDbOpen(c) ==
  /\ authDb.at[c] = "awaiting"
  /\ authDb' = [authDb EXCEPT !.handle = authDb.constructed + 1,
                              !.constructed = @ + 1,
                              !.execs = @ + 1,
                              !.at[c] = "returned",
                              !.got[c] = authDb.constructed + 1]
  /\ UNCHANGED <<storeVars, rev, regOpen, sudo, db, sessVars, h, q, guard>>

\* The process is restarted: the module starts with db = null again.
RestartProcess ==
  /\ authDb # NoAuthDb
  /\ \A c \in AuthDbCallers : authDb.at[c] # "awaiting"
  /\ authDb' = NoAuthDb
  /\ UNCHANGED <<storeVars, rev, regOpen, sudo, db, sessVars, h, q, guard>>

\* Variant: a logout that leaves the cookie as it is.
KeepCookie(cookie) == cookie

\* session.clear(): the cookie the client holds afterwards.
clearAuthSession(cookie) == SealA(EmptyA)

\* clearAuthSessionLogout(): session.clear()
ClearAuthSessionLogout ==
  /\ Quiet /\ rev = "A"
  /\ sessA' = clearAuthSession(sessA)
  /\ h' = [Idle EXCEPT !.kind = "clearAuthSessionLogout", !.pc = "done",
                       !.res = Void]
  /\ UNCHANGED <<storeVars, envVars, sessB, q, guard>>

\* The response of the handler in flight has been delivered.
Respond ==
  /\ h.pc = "done"
  /\ ~GuardAwaits
  /\ h' = Idle
  /\ UNCHANGED <<storeVars, envVars, sessVars, q, guard>>

\* Variant: a getUser() that answers from the session payload alone.
getUserFromPayload(fails) ==
  IF fails \/ UnsealA(sessA).id = NoId THEN Null
  ELSE Obj(UnsealA(sessA).id, UnsealA(sessA).username)

\* getUser() of auth.ts for a request carrying `cookie`, on the current
\* table.  `fails` is useAuthSession or the SELECT throwing: the catch block
\* returns null.
ResolveA(cookie, fails) ==
  IF fails THEN Null
  ELSE IF UnsealA(cookie).id = NoId THEN Null
  ELSE IF ~Truthy(findUserById(UnsealA(cookie).id)) THEN Null
  ELSE findUserById(UnsealA(cookie).id)

\* getUser() of auth.ts in the request in flight.
getUserA(fails) == ResolveA(sessA, fails)

\* Variant: a guard that admits on the truthiness of the object alone.
AdmitsTruthy(user) == Truthy(user)

\* Variant: a guard that lets every caller through.
AdmitsAll(user) == TRUE

\* The test every guard of revision A applies to what getUser() returned:
\* `if (!user || !user.id)` denies.
GuardAdmits(user) == Truthy(user) /\ user.id # NoId

\* ------------------------------------------ lib/RouteGuard.tsx and lib/db.ts
\* The notes table lib/db.ts creates.
Notes == <<"First Note", "Second Note">>
Thrown(path) == [tag |-> "thrown", to |-> path]
Returned(v) == [tag |-> "returned", value |-> v]

\* ensureAuthenticated(), getNote(id) or listNotes() is called.
Accessors == {"ensureAuthenticated", "getNote", "listNotes"}

StartAccessor(kind) ==
  /\ Quiet /\ rev = "A"
  /\ h' = [Idle EXCEPT !.kind = kind, !.pc = "getUser"]
  /\ UNCHANGED <<storeVars, envVars, sessVars, q, guard>>

\* An accessor from `const user = await getUser()` on, getUser() having
\* returned `user`: if (!user || !user.id) throw redirect("/login")
AccessorChecks(user) ==
  /\ h.kind \in Accessors /\ h.pc = "getUser"
  /\ h' = IF ~GuardAdmits(user) THEN [Done(Thrown("/login")) EXCEPT !.user = user]
          ELSE IF h.kind = "ensureAuthenticated"
            THEN [Done(Returned(TRUE)) EXCEPT !.user = user]
          ELSE [h EXCEPT !.pc = "getDb", !.user = user]
  /\ UNCHANGED <<storeVars, envVars, sessVars, q, guard>>

AccessorGetUser(fails) == AccessorChecks(getUserA(fails))

\* Variant: a getDb that hands the connection to every caller.
getDbAlways(user) == "connection"

\* getDb(), its getUser() having returned `user`: the connection, or null.
\* (DB_PATH is taken to be set; getDb throws when it is not.)
getDb(user) == IF GuardAdmits(user) THEN "connection" ELSE "null"

\* An accessor from `const db = await getDb()` on, the getUser() inside getDb
\* having returned `user`: if (!db) return undefined   (listNotes: return [])
AccessorConnects(user) ==
  /\ h.kind \in {"getNote", "listNotes"} /\ h.pc = "getDb"
  /\ h' = IF getDb(user) = "null"
            THEN [Done(IF h.kind = "getNote" THEN Returned(<<"undefined">>)
                                               ELSE Returned(<<>>))
                    EXCEPT !.dbUser = user]
            ELSE [h EXCEPT !.pc = "select", !.dbUser = user]
  /\ db' = IF getDb(user) = "null" THEN db ELSE Opened
  /\ UNCHANGED <<storeVars, rev, regOpen, sudo, authDb, sessVars, q, guard>>

AccessorGetDb(fails) == AccessorConnects(getUserA(fails))

\* The protected query: SELECT * FROM notes [WHERE id = ?]
AccessorSelect(id) ==
  /\ h.kind \in {"getNote", "listNotes"} /\ h.pc = "select"
  /\ h' = [Done(Returned(IF h.kind = "getNote" THEN <<Notes[id]>> ELSE Notes))
            EXCEPT !.queried = TRUE]
  /\ UNCHANGED <<storeVars, envVars, sessVars, q, guard>>

\* --------------------------------------------------- RouteGuard, client side
\* A page with <RouteGuard> is rendered: createAsync calls
\* ensureAuthenticated(), isUser starts false, the effect is scheduled.
MountRouteGuard ==
  /\ Quiet /\ rev = "A"
  /\ ~guard.mounted
  /\ guard' = [Unmounted EXCEPT !.mounted = TRUE, !.userAuthStatus = "pending",
                                !.children = Show(FALSE), !.effectDue = TRUE]
  /\ h' = [Idle EXCEPT !.kind = "ensureAuthenticated", !.pc = "getUser"]
  /\ UNCHANGED <<storeVars, envVars, sessVars, q>>

\* Variant: a thrown redirect is swallowed, the router does not navigate.
NeverNavigates(res) == FALSE

\* What the query hands to createAsync for the server's answer `res`: true,
\* or - for a thrown redirect - undefined while the router navigates.
AuthStatusOf(res) == IF res = Returned(TRUE) THEN "true" ELSE "undefined"
NavigatesOn(res) == res.tag = "thrown"

\* The answer of ensureAuthenticated() arrives at the guard.
GuardResolves ==
  /\ GuardAwaits /\ h.pc = "done"
  /\ guard' = [guard EXCEPT !.userAuthStatus = AuthStatusOf(h.res),
                            !.navigated = NavigatesOn(h.res),
                            !.effectDue = TRUE]
  /\ h' = Idle
  /\ UNCHANGED <<storeVars, envVars, sessVars, q>>

\* Variant: an effect that sets the signal without looking at the status.
EffectSetsAlways(isUser, status) == TRUE

\* The signal value the effect leaves: if (userAuthStatus()) setIsUser(true)
EffectSets(isUser, status) == IF status = "true" THEN TRUE ELSE isUser

\* createEffect runs (after mount, and again when userAuthStatus changes);
\* <Show> follows the signal.
GuardEffect ==
  /\ guard.mounted /\ guard.effectDue
  /\ guard' = [guard EXCEPT
                 !.isUser = EffectSets(guard.isUser, guard.userAuthStatus),
                 !.children = Show(EffectSets(guard.isUser, guard.userAuthStatus)),
                 !.effectDue = FALSE]
  /\ UNCHANGED <<storeVars, envVars, sessVars, h, q>>

\* The page is left (after the redirect, or by the user once it has settled).
UnmountRouteGuard ==
  /\ guard.mounted /\ guard.userAuthStatus # "pending" /\ ~guard.effectDue
  /\ Quiet
  /\ guard' = Unmounted
  /\ UNCHANGED <<storeVars, envVars, sessVars, h, q>>

\* ============================================ revision B: lib/auth/db (hash.ts)
\* Variant: the switch is not consulted.
SudoAlways == TRUE

\* isSudoMode(): process.env.SUDO_MODE === "true"
isSudoMode == sudo

\* Each of these awaits isSudoMode() (and hashPassword) and then runs one
\* statement: one atomic step of the store.  They are exported and may be
\* called by any other request or operator script at any time.

\* createUser(username, password) called directly.
CreateUser(username, password) ==
  /\ isSudoMode
  /\ nextId <= MaxIds - (IF h.pc \in {"insert", "create"} THEN 1 ELSE 0)
  /\ ~UniqueViolation(username)    \* else the INSERT throws, nothing changes
  /\ users' = InsertUser(nextId, username, hashPassword(password))
  /\ nextId' = nextId + 1
  /\ UNCHANGED <<envVars, sessVars, h, q, guard>>

\* changeUsername(userId, newUsername): UPDATE users SET username = ? WHERE id = ?
ChangeUsername(userId, newUsername) ==
  /\ isSudoMode
  /\ userId \in DOMAIN users       \* else changes = 0: "User not found"
  /\ users[userId].username # newUsername
  /\ ~UniqueViolation(newUsername) \* else the UPDATE throws (UNIQUE)
  /\ users' = [users EXCEPT ![userId].username = newUsername]
  /\ UNCHANGED <<nextId, envVars, sessVars, h, q, guard>>

\* changePassword(userId, newPassword)
ChangePassword(userId, newPassword) ==
  /\ isSudoMode
  /\ userId \in DOMAIN users
  /\ users[userId].pass_hash # hashPassword(newPassword)
  /\ users' = [users EXCEPT ![userId].pass_hash = hashPassword(newPassword)]
  /\ UNCHANGED <<nextId, envVars, sessVars, h, q, guard>>

\* deleteUser(userId): DELETE FROM users WHERE id = ?
DeleteUser(userId) ==
  /\ isSudoMode
  /\ userId \in DOMAIN users
  /\ users' = DeleteRow(userId)
  /\ UNCHANGED <<nextId, envVars, sessVars, h, q, guard>>

\* ------------------- the same four functions with the caller looking on
\* What each call returns or throws and what it leaves behind.  storeFails
\* is the statement itself throwing (nothing here catches it).
createUser(username, password, storeFails) ==
  IF ~isSudoMode
    THEN Outcome(ErrorB(<<"User Registration is not Authorized">>), users, FALSE)
  ELSE IF storeFails THEN Outcome(ErrorB(<<SqliteError>>), users, TRUE)
  ELSE IF UniqueViolation(username)
    THEN Outcome(ErrorB(<<UniqueConstraintFailed>>), users, TRUE)
  ELSE Outcome(Returned(Obj(nextId, username)),
               InsertUser(nextId, username, hashPassword(password)), TRUE)

changeUsername(userId, newUsername, storeFails) ==
  IF ~isSudoMode
    THEN Outcome(ErrorB(<<"Username Change is not Authorized">>), users, FALSE)
  ELSE IF storeFails THEN Outcome(ErrorB(<<SqliteError>>), users, FALSE)
  ELSE IF NoRowChanged(userId)
    THEN Outcome(ErrorB(<<"User not found">>), users, FALSE)
  ELSE IF UniqueViolation(newUsername) /\ RowOf(newUsername) # userId
    THEN Outcome(ErrorB(<<UniqueConstraintFailed>>), users, FALSE)
  ELSE Outcome(Void, UpdateUsername(userId, newUsername), FALSE)

changePassword(userId, newPassword, storeFails) ==
  IF ~isSudoMode
    THEN Outcome(ErrorB(<<"Password Change is not Authorized">>), users, FALSE)
  ELSE IF storeFails THEN Outcome(ErrorB(<<SqliteError>>), users, TRUE)
  ELSE IF NoRowChanged(userId)
    THEN Outcome(ErrorB(<<"User not found">>), users, TRUE)
  ELSE Outcome(Void, UpdatePassHash(userId, hashPassword(newPassword)), TRUE)

deleteUser(userId, storeFails) ==
  IF ~isSudoMode
    THEN Outcome(ErrorB(<<"User Removal is not Authorized">>), users, FALSE)
  ELSE IF storeFails THEN Outcome(ErrorB(<<SqliteError>>), users, FALSE)
  ELSE IF NoRowChanged(userId)
    THEN Outcome(ErrorB(<<"User not found">>), users, FALSE)
  ELSE Outcome(Void, DeleteRow(userId), FALSE)

\* One of the four is called between the client's requests and has `out`.
AdminCall(kind, userId, username, password, out) ==
  /\ Quiet /\ rev = "B"
  /\ h' = [Idle EXCEPT !.kind = kind, !.pc = "done", !.uid = userId,
                       !.username = username, !.password = password,
                       !.res = out.res, !.hashed = out.hashed]
  /\ users' = out.users
  /\ UNCHANGED <<envVars, sessVars, q, guard>>

CallCreateUser(username, password, storeFails) ==
  /\ nextId <= MaxIds
  /\ AdminCall("createUser", NoId, username, password,
               createUser(username, password, storeFails))
  /\ nextId' = IF createUser(username, password, storeFails).users # users
                 THEN nextId + 1 ELSE nextId

CallChangeUsername(userId, newUsername, storeFails) ==
  /\ AdminCall("changeUsername", userId, newUsername, "",
               changeUsername(userId, newUsername, storeFails))
  /\ UNCHANGED nextId

CallChangePassword(userId, newPassword, storeFails) ==
  /\ AdminCall("changePassword", userId, "", newPassword,
               changePassword(userId, newPassword, storeFails))
  /\ UNCHANGED nextId

CallDeleteUser(userId, storeFails) ==
  /\ AdminCall("deleteUser", userId, "", "", deleteUser(userId, storeFails))
  /\ UNCHANGED nextId

\* ================================= revision B: server.ts / index.ts (part_001/2)
validateUsername(username) ==
  IF Len(username) < 3
    THEN <<"Usernames must be at least 3 characters long">> ELSE <<>>

validatePassword(password) ==
  IF Len(password) < 16
    THEN <<"Passwords must be at least 16 characters long">> ELSE <<>>

\* validateUsername(username) || validatePassword(password)
validate(username, password) ==
  IF validateUsername(username) # <<>> THEN validateUsername(username)
  ELSE validatePassword(password)

\* loginOrRegister(formData): validation (registration only), then the first
\* statement of login / register is still to come.
StartLoginOrRegister(username, password, loginType) ==
  /\ Quiet
  /\ rev = "B"
  /\ loginType # "login" => nextId <= MaxIds
  /\ h' = IF loginType # "login" /\ validate(username, password) # <<>>
            THEN [Idle EXCEPT !.kind = "register", !.pc = "done",
                              !.username = username, !.password = password,
                              !.res = ErrorB(validate(username, password))]
            ELSE [Idle EXCEPT !.kind = IF loginType = "login" THEN "login"
                                       ELSE "register",
                              !.pc = "find",
                              !.username = username, !.password = password]
  /\ UNCHANGED <<storeVars, envVars, sessVars, q, guard>>

\* login: const user = await findUserByUsername(username)
\* login up to `if (!user) throw ...`: what loginOrRegister returns, or Continue.
LoginLookup(username, storeFails) ==
  IF storeFails THEN ErrorB(<<SqliteError>>)
  ELSE IF ~Truthy(findUserByUsername(username)) THEN ErrorB(<<"Invalid login">>)
  ELSE Continue

LoginFind(storeFails) ==
  /\ h.kind = "login" /\ h.pc = "find"
  /\ h' = IF LoginLookup(h.username, storeFails) # Continue
            THEN Done(LoginLookup(h.username, storeFails))
            ELSE [h EXCEPT !.pc = "hash",
                           !.uid = findUserByUsername(h.username).id]
  /\ UNCHANGED <<storeVars, envVars, sessVars, q, guard>>

\* What login does once `user` is found (its id is what the session will
\* get): getUserPasswordHash(username) reads
\* the hash of the row that has the username now, verifyPassword compares.
LoginOutcome(username, password, storeFails) ==
  IF storeFails THEN ErrorB(<<SqliteError>>)
  ELSE IF getUserPasswordHash(username) = NoHash
    THEN ErrorB(<<"Invalid login">>)
  ELSE IF ~verifyPassword(password, getUserPasswordHash(username))
    THEN ErrorB(<<"Invalid login">>)
  ELSE RedirectTo("/")

\* loginOrRegister with loginType "login", run without interruption on a
\* working store: the value it returns.
login(username, password) ==
  IF LoginLookup(username, FALSE) # Continue THEN LoginLookup(username, FALSE)
  ELSE LoginOutcome(username, password, FALSE)

\* loginOrRegister: session.update((d) => { d.userId = user.id })
LoginSession(cookie, userId) ==
  SealB([UnsealB(cookie) EXCEPT !.userId = userId])

\* login's second half, then loginOrRegister's session.update
LoginHash(storeFails) ==
  /\ h.kind = "login" /\ h.pc = "hash"
  /\ LET out == LoginOutcome(h.username, h.password, storeFails) IN
       /\ h' = Done(out)
       /\ sessB' = IF out.tag = "redirect"
                     THEN LoginSession(sessB, h.uid)
                     ELSE sessB
  /\ UNCHANGED <<storeVars, envVars, sessA, q, guard>>

\* register: const existingUser = await findUserByUsername(username)
\* register up to `if (existingUser) throw ...`
RegisterLookup(username, storeFails) ==
  IF storeFails THEN ErrorB(<<SqliteError>>)
  ELSE IF Truthy(findUserByUsername(username))
    THEN ErrorB(<<"User already exists">>)
  ELSE Continue

\* createUser as register calls it, when it does not insert: what it throws.
\* Continue when the INSERT goes through.
CreateUserThrows(username, storeFails) ==
  IF ~isSudoMode THEN ErrorB(<<"User Registration is not Authorized">>)
  ELSE IF storeFails THEN ErrorB(<<SqliteError>>)
  ELSE IF UniqueViolation(username) THEN ErrorB(<<UniqueConstraintFailed>>)
  ELSE Continue

\* loginOrRegister with another loginType, run without interruption on a
\* working store: the value it returns.
register(username, password) ==
  IF validate(username, password) # <<>>
    THEN ErrorB(validate(username, password))
  ELSE IF RegisterLookup(username, FALSE) # Continue
    THEN RegisterLookup(username, FALSE)
  ELSE IF CreateUserThrows(username, FALSE) # Continue
    THEN CreateUserThrows(username, FALSE)
  ELSE RedirectTo("/")

RegisterFind(storeFails) ==
  /\ h.kind = "register" /\ h.pc = "find"
  /\ h' = IF RegisterLookup(h.username, storeFails) # Continue
            THEN Done(RegisterLookup(h.username, storeFails))
            ELSE [h EXCEPT !.pc = "create"]
  /\ UNCHANGED <<storeVars, envVars, sessVars, q, guard>>

\* register: return await createUser(username, password), then
\* loginOrRegister's session.update(d.userId = user.id)
RegisterCreate(storeFails) ==
  /\ h.kind = "register" /\ h.pc = "create"
  /\ IF CreateUserThrows(h.username, storeFails) # Continue
       THEN /\ h' = [Done(CreateUserThrows(h.username, storeFails))
                      EXCEPT !.hashed = isSudoMode]
            /\ UNCHANGED <<storeVars, sessB>>
       ELSE /\ users' = InsertUser(nextId, h.username, hashPassword(h.password))
            /\ nextId' = nextId + 1
            /\ sessB' = LoginSession(sessB, nextId)
            /\ h' = [Done(RedirectTo("/")) EXCEPT !.uid = nextId,
                                                 !.hashed = TRUE]
  /\ UNCHANGED <<envVars, sessA, q, guard>>

\* logout(): session.update(d => d.userId = undefined)   (server.ts)
logoutSession(cookie) == SealB([UnsealB(cookie) EXCEPT !.userId = NoId])

\* The logout action of index.ts: logoutSession(), return redirect("/login")
Logout ==
  /\ Quiet /\ rev = "B"
  /\ sessB' = logoutSession(sessB)
  /\ h' = [Idle EXCEPT !.kind = "logout", !.pc = "done",
                       !.res = RedirectTo("/login")]
  /\ UNCHANGED <<storeVars, envVars, sessA, q, guard>>

\* ---------------------------------------- index.ts getUser / requireUser
\* The body of getUser (the function given to query) for a request carrying
\* `cookie`, on the current table: the identity, or - from the catch block - a
\* redirect after logoutSession().  `fails` is findUserById throwing.
ResolveB(cookie, fails) ==
  IF UnsealB(cookie).userId = NoId THEN Thrown("/login")
  ELSE IF fails THEN Thrown("/login")
  ELSE IF ~Truthy(findUserById(UnsealB(cookie).userId)) THEN Thrown("/login")
  ELSE findUserById(UnsealB(cookie).userId)

\* The body of getUser in the request in flight.
getUserBody(fails) == ResolveB(sessB, fails)

\* Variant: a wrapper that lets the body's throw reach the caller.
QueryRethrows(produced) == produced

\* What the caller of a query-wrapped function receives for what the body
\* produced: solid-router's query turns a thrown redirect into a Location
\* header on the response and resolves the call to undefined (the README's
\* "getUser can return undefined").
QueryResolves(produced) ==
  IF produced.tag = "thrown" THEN Undefined ELSE produced

\* Variant: no cache - every call starts the body again.
QueryEntryFresh(entry) == [tag |-> "pending"]

\* query(): within one request a key's entry, once made, is what every later
\* call gets.  The entry to use for a call that finds `entry` in the cache.
QueryEntry(entry) ==
  IF entry.tag = "absent" THEN [tag |-> "pending"] ELSE entry

\* requireUser's test of what getUser() resolved to.
RequireUserAdmits(user) ==
  Truthy(user) /\ user.id # NoId /\ user.username # ""

\* The home route is requested: Home renders, its consumers start.
StartHome ==
  /\ Quiet /\ rev = "B"
  /\ q' = [NoRequest EXCEPT !.active = TRUE]
  /\ UNCHANGED <<storeVars, envVars, sessVars, h, guard>>

\* Consumer c calls requireUser(), which calls getUser(): the call joins the
\* request's cache entry, creating it (and starting the body) when absent.
CallRequireUser(c) ==
  /\ q.active /\ q.at[c] = "ready"
  /\ q' = [q EXCEPT !.cache = QueryEntry(q.cache), !.at[c] = "awaiting",
                    !.calls[c] = @ + 1]
  /\ UNCHANGED <<storeVars, envVars, sessVars, h, guard>>

\* The body of getUser runs to its end (one session read, at most one SELECT)
\* and has produced `produced`; the query entry resolves.
QueryBodyEnds(produced) ==
  /\ q.active /\ q.cache.tag = "pending"
  /\ LET lookedUp == UnsealB(sessB).userId # NoId IN
       /\ q' = [q EXCEPT !.cache = QueryResolves(produced),
                         !.runs = @ + 1,
                         !.lookups = @ + (IF lookedUp THEN 1 ELSE 0),
                         !.redirected = @ \/ produced.tag = "thrown"]
       /\ sessB' = IF produced.tag = "thrown" THEN logoutSession(sessB) ELSE sessB
  /\ UNCHANGED <<storeVars, envVars, sessA, h, guard>>

\* Consumer c's await getUser() resumes inside requireUser(): the test, then
\* either the user is returned to privateData / getDbConnection, or
\* logoutSession() and throw redirect("/login").
ResumeRequireUser(c) ==
  /\ q.active /\ q.at[c] = "awaiting"
  /\ q.cache.tag \notin {"absent", "pending"}
  /\ IF RequireUserAdmits(q.cache)
       THEN /\ q' = [q EXCEPT !.got[c] = q.cache,
                              !.at[c] = IF q.calls[c] < CallsPerConsumer
                                          THEN "ready" ELSE "data"]
            /\ UNCHANGED sessB
       ELSE /\ q' = [q EXCEPT !.got[c] = q.cache, !.at[c] = "redirect",
                              !.redirected = TRUE]
            /\ sessB' = logoutSession(sessB)
  /\ UNCHANGED <<storeVars, envVars, sessA, h, guard>>

GetUserBody(fails) == QueryBodyEnds(getUserBody(fails))

\* The response is sent; the request and its cache are gone.
FinishHome ==
  /\ q.active
  /\ \A c \in Consumers : q.at[c] \in {"data", "redirect"}
  /\ q' = NoRequest
  /\ UNCHANGED <<storeVars, envVars, sessVars, h, guard>>

\* --------------------------------------------------------------- the client
\* The client (or the network) damages its cookies: they no longer unseal.
Tamper ==
  /\ Quiet
  /\ IF rev = "A" THEN sessA.ok ELSE sessB.ok
  /\ sessA' = IF rev = "A" THEN [sessA EXCEPT !.ok = FALSE] ELSE sessA
  /\ sessB' = IF rev = "B" THEN [sessB EXCEPT !.ok = FALSE] ELSE sessB
  /\ UNCHANGED <<storeVars, envVars, h, q, guard>>

\* The operator restarts the server with other switches: the module state
\* starts anew, the files stay.
SetEnvironment ==
  /\ Quiet
  /\ \E r \in BOOLEAN, su \in BOOLEAN :
       /\ <<r, su>> # <<regOpen, sudo>>
       /\ rev = "B" => r = regOpen
       /\ regOpen' = r
       /\ sudo' = su
  /\ db' = [db EXCEPT !.handle = FALSE]
  /\ authDb' = NoAuthDb
  /\ UNCHANGED <<rev, storeVars, sessVars, h, q, guard>>

\* The next-state relation with the form inputs drawn from U and P, and the
\* store failing (a statement throwing) as F allows.
NextOn(U, P, F) ==
  \/ \E u \in U, p \in P : StartRegisterUser(u, p)
  \/ \E f \in F : RegisterUserCheck(f)
  \/ \E f \in F : RegisterUserInsert(f)
  \/ \E u \in U, p \in P : StartLoginUser(u, p)
  \/ \E f \in F : LoginUserGetUserId(f)
  \/ \E f \in F : LoginUserVerify(f)
  \/ ClearAuthSessionLogout
  \/ \E k \in Accessors : StartAccessor(k)
  \/ \E f \in F : AccessorGetUser(f)
  \/ \E f \in F : AccessorGetDb(f)
  \/ MountRouteGuard
  \/ GuardResolves
  \/ GuardEffect
  \/ UnmountRouteGuard
  \/ \E n \in DOMAIN Notes : AccessorSelect(n)
  \/ \E u \in Usernames, p \in Passwords : CreateUser(u, p)
  \/ \E i \in Ids, u \in Usernames : ChangeUsername(i, u)
  \/ \E i \in Ids, p \in Passwords : ChangePassword(i, p)
  \/ \E i \in Ids : DeleteUser(i)
  \/ \E u \in U, p \in P, t \in {"login", "register"} :
       StartLoginOrRegister(u, p, t)
  \/ \E f \in F : LoginFind(f)
  \/ \E f \in F : LoginHash(f)
  \/ \E f \in F : RegisterFind(f)
  \/ \E f \in F : RegisterCreate(f)
  \/ Logout
  \/ StartHome
  \/ \E c \in Consumers : CallRequireUser(c)
  \/ \E f \in F : GetUserBody(f)
  \/ \E c \in Consumers : ResumeRequireUser(c)
  \/ FinishHome
  \/ Tamper
  \/ SetEnvironment
  \/ Respond

Next == NextOn(Usernames, Passwords, BOOLEAN)

Spec == Init /\ [][Next]_vars

\* The same system with form inputs that fail validation as well.
NextAnyInput == NextOn(AnyUsername, AnyPassword, BOOLEAN)

SpecAnyInput == Init /\ [][NextAnyInput]_vars

\* Registration alone, with form inputs that fail validation as well, on a
\* table that other writers fill and empty and with the switches changing.
NextRegistration ==
  \/ \E u \in AnyUsername, p \in AnyPassword : StartRegisterUser(u, p)
  \/ \E f \in BOOLEAN : RegisterUserCheck(f)
  \/ \E f \in BOOLEAN : RegisterUserInsert(f)
  \/ \E u \in AnyUsername, p \in AnyPassword :
       StartLoginOrRegister(u, p, "register")
  \/ \E f \in BOOLEAN : RegisterFind(f)
  \/ \E f \in BOOLEAN : RegisterCreate(f)
  \/ \E u \in Usernames, p \in Passwords : CreateUser(u, p)
  \/ \E i \in Ids : DeleteUser(i)
  \/ SetEnvironment
  \/ Respond

SpecRegistration == Init /\ [][NextRegistration]_vars

\* The system with its scheduling: the server runs a started
\* ensureAuthenticated() to its end, its answer reaches the client, and the
\* client runs a scheduled effect.
SpecLive ==
  /\ Spec
  /\ WF_vars(\E f \in BOOLEAN : AccessorGetUser(f))
  /\ WF_vars(GuardResolves)
  /\ WF_vars(GuardEffect)

\* ------------------------------------------------ the guards on any result
\* The shapes a resolver can hand to a guard: absent values, objects without
\* an id (with and without a username), and full or partial identities.
ResultShapes ==
  {Null, Undefined, Obj(NoId, ""), Obj(NoId, "alice"), Obj(1, "alice"),
   Obj(1, "")}

\* The guards and accessors alone, their getUser() replaced by a stub that
\* returns any of the shapes (or, for the query body, throws the redirect).
NextGuards ==
  \/ \E k \in Accessors : StartAccessor(k)
  \/ \E u \in ResultShapes : AccessorChecks(u)
  \/ \E u \in ResultShapes : AccessorConnects(u)
  \/ \E n \in DOMAIN Notes : AccessorSelect(n)
  \/ Respond
  \/ StartHome
  \/ \E c \in Consumers : CallRequireUser(c)
  \/ \E u \in ResultShapes \cup {Thrown("/login")} : QueryBodyEnds(u)
  \/ \E c \in Consumers : ResumeRequireUser(c)
  \/ FinishHome

SpecGuards == Init /\ [][NextGuards]_vars

\* requireUser on any result, for a client that may be logged in: the home
\* request with getUser's body replaced by the stub, and registration through
\* loginOrRegister (which logs the new user in) and logout around it.
NextRequireUser ==
  \/ \E u \in Usernames, p \in Passwords :
       StartLoginOrRegister(u, p, "register")
  \/ \E f \in BOOLEAN : RegisterFind(f)
  \/ \E f \in BOOLEAN : RegisterCreate(f)
  \/ Logout
  \/ Respond
  \/ StartHome
  \/ \E c \in Consumers : CallRequireUser(c)
  \/ \E u \in ResultShapes \cup {Thrown("/login")} : QueryBodyEnds(u)
  \/ \E c \in Consumers : ResumeRequireUser(c)
  \/ FinishHome

SpecRequireUser == Init /\ [][NextRequireUser]_vars

\* The user administration alone: the four functions of the lib/auth db
\* module and the two of auth.ts called with every id, the switches changing,
\* other writers filling and emptying the table.
NextAdmin ==
  \/ \E u \in Usernames, p \in Passwords, f \in BOOLEAN : CallCreateUser(u, p, f)
  \/ \E i \in Ids, u \in Usernames, f \in BOOLEAN : CallChangeUsername(i, u, f)
  \/ \E i \in Ids, p \in Passwords, f \in BOOLEAN : CallChangePassword(i, p, f)
  \/ \E i \in Ids, f \in BOOLEAN : CallDeleteUser(i, f)
  \/ \E i \in Ids, p \in Passwords, f \in BOOLEAN :
       StartUpdateUserPassword(i, p, f)
  \/ \E f \in BOOLEAN : UpdateUserPasswordWrite(f)
  \/ \E i \in Ids, f \in BOOLEAN : CallDeleteUserA(i, f)
  \/ \E u \in Usernames, p \in Passwords : CreateUser(u, p)
  \/ \E i \in Ids : DeleteUser(i)
  \/ SetEnvironment
  \/ Respond

SpecAdmin == Init /\ [][NextAdmin]_vars

\* The users-database handle alone: the callers of getAuthDb() of one process.
NextAuthDb ==
  \/ \E c \in AuthDbCallers : GetAuthDbEnter(c)
  \/ \E c \in AuthDbCallers : GetAuthDbOpen(c)
  \/ RestartProcess

SpecAuthDb == Init /\ [][NextAuthDb]_vars

\* Password changes among logins: users are created, log in (either
\* revision), have their password changed by changePassword / updateUserPassword
\* and log in again; rows may be deleted in between.
NextPassword ==
  \/ \E u \in Usernames, p \in Passwords : CreateUser(u, p)
  \/ \E i \in Ids : DeleteUser(i)
  \/ \E u \in Usernames, p \in Passwords : StartLoginUser(u, p)
  \/ \E f \in BOOLEAN : LoginUserGetUserId(f)
  \/ \E f \in BOOLEAN : LoginUserVerify(f)
  \/ \E u \in Usernames, p \in Passwords : StartLoginOrRegister(u, p, "login")
  \/ \E f \in BOOLEAN : LoginFind(f)
  \/ \E f \in BOOLEAN : LoginHash(f)
  \/ \E i \in Ids, p \in Passwords, f \in BOOLEAN : CallChangePassword(i, p, f)
  \/ \E i \in Ids, p \in Passwords, f \in BOOLEAN :
       StartUpdateUserPassword(i, p, f)
  \/ \E f \in BOOLEAN : UpdateUserPasswordWrite(f)
  \/ Respond

SpecPassword == Init /\ [][NextPassword]_vars

\* The walkthrough's loginUser on a table that users join and leave.
NextWalkthrough ==
  \/ \E u \in Usernames, p \in Passwords : CreateUser(u, p)
  \/ \E i \in Ids : DeleteUser(i)
  \/ \E u \in Usernames, p \in Passwords : StartWalkthroughLoginUser(u, p)
  \/ \E f \in BOOLEAN : WalkthroughLoginUserGetUserId(f)
  \/ \E f \in BOOLEAN, landed \in BOOLEAN : WalkthroughLoginUserUpdate(f, landed)
  \/ Respond

SpecWalkthrough == Init /\ [][NextWalkthrough]_vars

\* ==================================================================== claims
\* The id the session of the running revision carries, as the server reads it.
SessionIdA == UnsealA(sessA).id
SessionIdB == UnsealB(sessB).userId
\* v is an identity: an object with a non-empty id.
IsIdentity(v) == v.tag = "object" /\ v.id # NoId
\* An accessor of lib/db.ts has run, or is about to run, its protected query.
QueryReached == h.pc = "select" \/ h.queried
\* This step ends the getUser() call an accessor makes for itself / the one
\* getDb makes / the body of the query-wrapped getUser.
AccessorResolves == h.kind \in Accessors /\ h.pc = "getUser" /\ h'.pc # "getUser"
GetDbResolves == h.pc = "getDb" /\ h'.pc # "getDb"
QueryResolvesNow == q.cache.tag = "pending" /\ q'.cache.tag # "pending"

\* C1: within one request an accessor reaches its protected query (getNote,
\* listNotes) or returns the private data (privateData / getDbConnection)
\* only after a resolution of that request has returned an identity with a
\* non-empty id; when the accessor's resolution yields no identity, the
\* accessor ends in redirect("/login") and no protected query has run.
C1_GuardBeforeData ==
  /\ QueryReached => IsIdentity(h.user) /\ IsIdentity(h.dbUser)
  /\ (h.kind \in Accessors /\ h.pc # "getUser" /\ ~IsIdentity(h.user))
       => /\ h.pc = "done" /\ h.res = Thrown("/login")
          /\ h.dbUser = Undefined /\ ~h.queried
  /\ \A c \in Consumers :
       /\ q.at[c] = "data" =>
            q.runs >= 1 /\ IsIdentity(q.got[c]) /\ q.got[c] = q.cache
       /\ (q.calls[c] >= 1 /\ q.at[c] # "awaiting" /\ ~IsIdentity(q.got[c]))
            => q.at[c] = "redirect" /\ q.redirected

C1_Witness ==
  /\ h.kind = "listNotes" /\ h.pc = "done" /\ h.res = Returned(Notes)
  /\ h.queried /\ IsIdentity(h.user)

\* C2: a resolution that runs when the session's id has no row (the row was
\* deleted; the cookie still unseals to that id) is unauthenticated: null and
\* a redirect in lib/db.ts and RouteGuard, undefined with a redirect and a
\* cleared session for the query-wrapped getUser.
C2_RevocationOnDelete ==
  [][/\ (AccessorResolves /\ SessionIdA # NoId /\ SessionIdA \notin DOMAIN users)
          => h'.user = Null /\ h'.res = Thrown("/login")
     /\ (GetDbResolves /\ SessionIdA # NoId /\ SessionIdA \notin DOMAIN users)
          => h'.dbUser = Null /\ h'.pc = "done" /\ ~h'.queried
     /\ (QueryResolvesNow /\ SessionIdB # NoId /\ SessionIdB \notin DOMAIN users)
          => q'.cache = Undefined /\ q'.redirected /\ SessionIdB' = NoId
    ]_vars

C2_Witness ==
  /\ sessA.ok /\ SessionIdA # NoId /\ SessionIdA \notin DOMAIN users
  /\ h.kind = "ensureAuthenticated" /\ h.pc = "done"
  /\ h.user = Null /\ h.res = Thrown("/login")

\* C9: a resolution that runs on a cookie that does not unseal is
\* unauthenticated - getUser of auth.ts returns null (the guard redirects to
\* /login), the query-wrapped getUser redirects to /login and its callers get
\* undefined - whatever the damaged cookie's payload names and whether or not
\* the store fails; no other outcome exists.
C9_UnsealFailure ==
  [][/\ (AccessorResolves /\ ~sessA.ok)
          => h'.user = Null /\ h'.res = Thrown("/login") /\ ~h'.queried
     /\ (QueryResolvesNow /\ ~sessB.ok)
          => q'.cache = Undefined /\ q'.redirected
    ]_vars

C9_Witness ==
  /\ ~sessA.ok /\ sessA.data.id \in DOMAIN users
  /\ h.kind = "getNote" /\ h.pc = "done"
  /\ h.user = Null /\ h.res = Thrown("/login")

\* This step is a registration completing with success.
RegistersNowA ==
  h.kind = "registerUser" /\ h.pc = "insert" /\ h'.pc = "done" /\ h'.res = Ok
RegistersNowB ==
  h.kind = "register" /\ h.pc = "create" /\ h'.pc = "done"
    /\ h'.res = RedirectTo("/")
\* In this state, where h holds a finished registration (its credentials and
\* the id it was assigned): login with the same credentials succeeds, and
\* the session that login stores resolves to the registered username under
\* the assigned id.
RoundTripA ==
  /\ loginUser(h.username, h.password) = Ok
  /\ ResolveA(LoginUserSession(getUserId(h.username), h.username), FALSE)
       = Obj(h.uid, h.username)
RoundTripB ==
  /\ login(h.username, h.password) = RedirectTo("/")
  /\ ResolveB(LoginSession(sessB, findUserByUsername(h.username).id), FALSE)
       = Obj(h.uid, h.username)

\* C3: round trip - right after a registration has succeeded for (username,
\* password), a login with the same credentials succeeds and the session it
\* stores resolves to an identity with the registered username and the id
\* assigned at registration.
C3_RoundTrip ==
  [][/\ RegistersNowA => RoundTripA'
     /\ RegistersNowB => RoundTripB'
    ]_vars

C3_Witness ==
  /\ h.kind = "registerUser" /\ h.pc = "done" /\ h.res = Ok
  /\ h.uid \in DOMAIN users /\ users[h.uid].username = h.username
  /\ RoundTripA

\* u is registered and p is not its password; v has no row.
WrongPasswordAndNoUser(u, p, v) ==
  /\ UsernameTaken(u) /\ ~verifyPassword(p, users[RowOf(u)].pass_hash)
  /\ ~UsernameTaken(v)

\* C4: for a registered user, login with a wrong password and login with a
\* username that has no row return the same failure value.
C4_LoginFailuresAlike ==
  \A u \in Usernames, v \in Usernames, p \in Passwords :
    WrongPasswordAndNoUser(u, p, v) =>
      /\ rev = "A" => loginUser(u, p) = loginUser(v, p)
      /\ rev = "B" => login(u, p) = login(v, p)

\* The two failures of loginUser, as the handler returns them.
C4_Witness ==
  /\ h.kind = "loginUser" /\ h.pc = "done"
  /\ h.res = Fail(<<"Error, user does not exists">>)
  /\ \E u \in Usernames : loginUser(u, h.password) = Fail(<<"Invalid password">>)

\* This step is a login completing with success: it writes the session.
LoginWritesA ==
  h.kind = "loginUser" /\ h.pc = "getHash" /\ h'.pc = "done" /\ h'.res = Ok
LoginWritesB ==
  h.kind = "login" /\ h.pc = "hash" /\ h'.pc = "done" /\ h'.res = RedirectTo("/")
\* If id is a user, the supplied password is that user's current password.
PresentedPasswordOf(id, password) ==
  id \in DOMAIN users => verifyPassword(password, users[id].pass_hash)

\* C5: a login writes into the session only the id of a user whose current
\* password is the one the call presented: no login call yields a session
\* for user U without presenting U's password.
C5_LoginWritesVerifiedId ==
  [][/\ LoginWritesA => PresentedPasswordOf(SessionIdA', h.password)
     /\ LoginWritesB => PresentedPasswordOf(SessionIdB', h.password)
    ]_vars

\* The switch that closes registration: REGISTRATION_ENABLED for registerUser,
\* SUDO_MODE for register / createUser.
RegistrationClosed == IF rev = "A" THEN ~regOpen ELSE ~sudo

\* C10: with the registration switch off, register returns the same result
\* for a username that exists as for one that does not.
C10_ClosedRegistrationUniform ==
  RegistrationClosed =>
    \A u \in Usernames, v \in Usernames, p \in Passwords :
      (UsernameTaken(u) /\ ~UsernameTaken(v)) =>
        /\ rev = "A" => registerUser(u, p) = registerUser(v, p)
        /\ rev = "B" => register(u, p) = register(v, p)

\* register with SUDO_MODE off, finished for a username that exists.
C10_Witness ==
  /\ rev = "B" /\ ~sudo
  /\ h.kind = "register" /\ h.pc = "done"
  /\ h.res = ErrorB(<<"User already exists">>)
  /\ \E v \in Usernames :
       register(v, h.password) = ErrorB(<<"User Registration is not Authorized">>)

\* Every consumer of the home request has finished its requireUser() calls.
HomeSettled ==
  q.active /\ \A c \in Consumers : q.at[c] \in {"data", "redirect"}

\* C6, as stated: the calls of one request make exactly one users-table
\* lookup.
C6_ExactlyOneLookup == HomeSettled => q.lookups = 1

\* C6, amended: in one request the body of the query-wrapped getUser runs
\* once however many calls are made - every later call reuses its result -
\* and it makes one users-table lookup when the session carries a user id,
\* none when it carries no id.
C6_OneRunAtMostOneLookup ==
  [][/\ QueryResolvesNow =>
          /\ q'.runs = 1
          /\ q'.lookups = (IF SessionIdB # NoId THEN 1 ELSE 0)
     /\ (q.active /\ q'.active /\ q.runs = 1) =>
          q'.runs = 1 /\ q'.lookups = q.lookups /\ q'.cache = q.cache
    ]_vars

C6_Witness ==
  /\ HomeSettled
  /\ \A c \in Consumers : q.calls[c] = CallsPerConsumer /\ q.at[c] = "data"
  /\ q.runs = 1 /\ q.lookups = 1

\* C7: of the requireUser() calls of one request, never has one returned an
\* identity while another has failed as unauthenticated.
C7_ConcurrentCallsAgree ==
  \A c \in Consumers, d \in Consumers :
    ~(IsIdentity(q.got[c]) /\ q.at[d] = "redirect")

\* Both consumers were admitted although the user was deleted meanwhile.
C7_Witness ==
  /\ \A c \in Consumers : q.at[c] = "data" /\ IsIdentity(q.got[c])
  /\ q.cache.id \notin DOMAIN users

\* C8: every guard denies a result whose id is missing or empty, object or
\* not: ensureAuthenticated, getNote and listNotes throw the redirect, getDb
\* returns null, requireUser redirects; none reaches its protected part.
C8_EmptyIdDenied ==
  /\ \A u \in ResultShapes : u.id = NoId => getDb(u) = "null"
  /\ (h.kind \in Accessors /\ h.pc # "getUser" /\ h.user.id = NoId)
       => h.pc = "done" /\ h.res = Thrown("/login")
  /\ (h.kind \in Accessors /\ h.pc \notin {"getUser", "getDb"}
        /\ h.res.tag # "thrown" /\ h.kind # "ensureAuthenticated")
       => (h.dbUser.id = NoId <=> h.res \in {Returned(<<"undefined">>), Returned(<<>>)})
  /\ QueryReached => h.user.id # NoId /\ h.dbUser.id # NoId
  /\ \A c \in Consumers :
       (q.calls[c] >= 1 /\ q.at[c] # "awaiting" /\ q.got[c].id = NoId)
         => q.at[c] = "redirect"

C8_Witness ==
  /\ h.kind = "ensureAuthenticated" /\ h.pc = "done"
  /\ h.user = Obj(NoId, "alice") /\ h.res = Thrown("/login")

\* C11: isUser starts false at mount, becomes true only when the guard's
\* ensureAuthenticated() has resolved to true, and while the guard instance
\* lives never goes back to false.
C11_IsUserOneWay ==
  [][/\ (~guard.mounted /\ guard'.mounted) => ~guard'.isUser
     /\ (guard.mounted /\ guard'.mounted) =>
          /\ guard.isUser => guard'.isUser
          /\ (~guard.isUser /\ guard'.isUser) => guard.userAuthStatus = "true"
     /\ (guard.userAuthStatus # "true" /\ guard'.userAuthStatus = "true") =>
          /\ h.kind = "ensureAuthenticated" /\ h.res = Returned(TRUE)
          /\ IsIdentity(h.user)
    ]_vars

C11_Witness ==
  guard.mounted /\ guard.isUser /\ guard.userAuthStatus = "true"

\* C12: the children of RouteGuard are rendered only while isUser is true;
\* they are not rendered while the check is pending nor after it has failed.
C12_ChildrenOnlyWhenUser ==
  /\ guard.children => guard.mounted /\ guard.isUser
  /\ (guard.mounted /\ guard.userAuthStatus \in {"pending", "undefined"})
       => ~guard.children

\* The check has failed for a cookie that names a user; nothing is shown.
C12_Witness ==
  /\ guard.mounted /\ guard.userAuthStatus = "undefined" /\ ~guard.effectDue
  /\ SessionIdA # NoId /\ ~guard.children

\* C13: every mounted RouteGuard whose check is pending eventually shows its
\* children or has navigated to /login.
C13_GuardSettles ==
  (guard.mounted /\ guard.userAuthStatus = "pending")
    ~> (guard.children \/ guard.navigated)

C13_Witness ==
  /\ guard.mounted /\ guard.navigated /\ ~guard.children
  /\ SessionIdA = NoId

\* The lookup of a resolution threw: the cookie names a user that has a row,
\* and yet the resolution returned no identity.
AccessorLookupThrew ==
  AccessorResolves /\ SessionIdA \in DOMAIN users /\ ~IsIdentity(h'.user)
GetDbLookupThrew ==
  GetDbResolves /\ SessionIdA \in DOMAIN users /\ ~IsIdentity(h'.dbUser)
QueryLookupThrew ==
  QueryResolvesNow /\ SessionIdB \in DOMAIN users /\ ~IsIdentity(q'.cache)

\* C14: a resolution whose users-table lookup throws returns no identity and
\* leaves the session without a user id.
C14_LookupFailureClearsSession ==
  [][/\ AccessorLookupThrew => SessionIdA' = NoId
     /\ GetDbLookupThrew => SessionIdA' = NoId
     /\ QueryLookupThrew => SessionIdB' = NoId /\ q'.redirected
    ]_vars

\* getUser of lib/auth.ts has returned null for a failed lookup.
C14_Witness ==
  /\ h.kind = "ensureAuthenticated" /\ h.pc = "done" /\ h.user = Null
  /\ SessionIdA \in DOMAIN users

\* The session's id has no row.
StaleA == SessionIdA # NoId /\ SessionIdA \notin DOMAIN users
StaleB == SessionIdB # NoId /\ SessionIdB \notin DOMAIN users

\* C15: a resolution for a session whose id has no row is unauthenticated
\* and leaves the session without a user id.
C15_StaleIdClearsSession ==
  [][/\ (AccessorResolves /\ StaleA)
          => ~IsIdentity(h'.user) /\ SessionIdA' = NoId
     /\ (GetDbResolves /\ StaleA)
          => ~IsIdentity(h'.dbUser) /\ SessionIdA' = NoId
     /\ (QueryResolvesNow /\ StaleB)
          => ~IsIdentity(q'.cache) /\ SessionIdB' = NoId
    ]_vars

\* getUser of lib/auth.ts has returned null for an id without a row.
C15_Witness ==
  /\ h.kind = "ensureAuthenticated" /\ h.pc = "done" /\ h.user = Null
  /\ StaleA

\* This step is a logout.
LogoutNowA == h.kind = "idle" /\ h'.kind = "clearAuthSessionLogout"
LogoutNowB == h.kind = "idle" /\ h'.kind = "logout"

\* C16: logout can be called in every state between requests, logged in or
\* not; it returns without error, leaves the session without a user id, and
\* a second logout would leave the session as the first left it.
C16_LogoutIdempotent ==
  /\ [](Quiet => IF rev = "A" THEN ENABLED ClearAuthSessionLogout
                              ELSE ENABLED Logout)
  /\ [][/\ LogoutNowA =>
             /\ h'.pc = "done" /\ h'.res = Void
             /\ SessionIdA' = NoId
             /\ clearAuthSession(sessA') = sessA'
        /\ LogoutNowB =>
             /\ h'.pc = "done" /\ h'.res = RedirectTo("/login")
             /\ SessionIdB' = NoId
             /\ logoutSession(sessB') = sessB'
       ]_vars

\* A logout has run with nobody logged in (and nobody registered).
C16_Witness ==
  /\ h.kind = "logout" /\ h.pc = "done" /\ h.res = RedirectTo("/login")
  /\ sessB = SealB(EmptyB) /\ users = <<>>

\* C17: a logout leaves the session without a user id; a session without a
\* user id gets one only by a successful login (loginUser; loginOrRegister,
\* which also logs in the user it registers); and every resolution made
\* for a session without a user id returns no identity.
C17_NoIdentityAfterLogout ==
  [][/\ LogoutNowA => SessionIdA' = NoId
     /\ LogoutNowB => SessionIdB' = NoId
     /\ (SessionIdA = NoId /\ SessionIdA' # NoId) => LoginWritesA
     /\ (SessionIdB = NoId /\ SessionIdB' # NoId)
          => LoginWritesB \/ RegistersNowB
     /\ (AccessorResolves /\ SessionIdA = NoId) => ~IsIdentity(h'.user)
     /\ (GetDbResolves /\ SessionIdA = NoId) => ~IsIdentity(h'.dbUser)
     /\ (QueryResolvesNow /\ SessionIdB = NoId) => ~IsIdentity(q'.cache)
    ]_vars

\* A logout has just run while users are registered.
C17_Witness ==
  /\ h.kind = "logout" /\ h.pc = "done"
  /\ SessionIdB = NoId /\ sessB.ok /\ DOMAIN users # {}

\* C18: the session a successful login stores holds the user's id and no
\* other identity data.
C18_SessionHoldsOnlyId ==
  [][/\ LoginWritesA => sessA'.data = [EmptyA EXCEPT !.id = h.uid]
     /\ LoginWritesB => sessB'.data = [EmptyB EXCEPT !.userId = h.uid]
    ]_vars

\* loginUser has stored the username in the session.
C18_Witness ==
  /\ h.kind = "loginUser" /\ h.pc = "done" /\ h.res = Ok
  /\ sessA.data.id = h.uid /\ sessA.data.username = h.username

\* The handler in flight is a registration whose input fails validation.
InvalidRegistration ==
  /\ h.kind \in {"registerUser", "register"}
  /\ validate(h.username, h.password) # <<>>

\* C19: a registration whose username or password is shorter than the
\* minimum is rejected before hashing and writing: none of its steps adds a
\* row to the users table.
C19_InvalidInputNotStored ==
  [][(InvalidRegistration /\ h' # h) => users' = users]_vars

\* registerUser has stored a user whose input fails validation.
C19_Witness ==
  /\ h.kind = "registerUser" /\ h.pc = "done" /\ h.res = Ok
  /\ validate(h.username, h.password) # <<>>
  /\ h.uid \in DOMAIN users /\ users[h.uid].username = h.username

\* v is the row the users table holds now under the session's id sid.
IsRowOf(v, sid) ==
  sid \in DOMAIN users /\ v = Obj(sid, users[sid].username)

\* C20: an identity returned by a resolution is the row the users table
\* holds for the session's id at that resolution - its current id and
\* username - whatever username the session payload carries.
C20_IdentityIsCurrentRow ==
  [][/\ (AccessorResolves /\ IsIdentity(h'.user))
          => IsRowOf(h'.user, SessionIdA)
     /\ (GetDbResolves /\ IsIdentity(h'.dbUser))
          => IsRowOf(h'.dbUser, SessionIdA)
     /\ (QueryResolvesNow /\ IsIdentity(q'.cache))
          => IsRowOf(q'.cache, SessionIdB)
    ]_vars

\* After changeUsername the session still carries the old username and the
\* resolution has returned the new one.
C20_Witness ==
  /\ h.kind = "ensureAuthenticated" /\ h.pc = "done" /\ IsIdentity(h.user)
  /\ IsRowOf(h.user, SessionIdA)
  /\ sessA.data.username # h.user.username

IsFullIdentity(v) == v.tag = "object" /\ v.id # NoId /\ v.username # ""
\* This step resumes consumer c's requireUser() after its await getUser().
RequireUserResumes(c) == q.at[c] = "awaiting" /\ q'.at[c] # "awaiting"

\* C22: requireUser returns only a full identity (non-empty id and
\* username), and then leaves the session alone; for every other result of
\* getUser - undefined, an object without id or without username - it
\* clears the session's user id and throws redirect("/login"); it never
\* returns undefined or a partial object.
C22_RequireUserAllOrNothing ==
  /\ [](\A c \in Consumers :
          (q.calls[c] >= 1 /\ q.at[c] \in {"ready", "data"})
            => IsFullIdentity(q.got[c]))
  /\ [][\A c \in Consumers :
          RequireUserResumes(c) =>
            IF IsFullIdentity(q.cache)
              THEN /\ q'.got[c] = q.cache /\ q'.at[c] \in {"ready", "data"}
                   /\ sessB' = sessB
              ELSE /\ q'.at[c] = "redirect" /\ q'.redirected
                   /\ SessionIdB' = NoId
       ]_vars

\* requireUser was handed an object with an id but no username while that
\* id has a row: it redirected, and the session is without a user id.
C22_Witness ==
  \E c \in Consumers :
    /\ q.at[c] = "redirect" /\ q.got[c] = Obj(1, "")
    /\ 1 \in DOMAIN users /\ SessionIdB = NoId

\* This step is the INSERT of a registration whose username has a row by now
\* (another registration of that username inserted after the exists-check).
LosesRace ==
  /\ h.pc \in {"insert", "create"} /\ h'.pc = "done"
  /\ UsernameTaken(h.username)

\* C23: no two rows of the users table ever have the same username,
\* whatever registrations, createUser and changeUsername calls interleave;
\* a registration that passed the exists-check and finds the username taken
\* at its INSERT fails with an error and adds no row.
C23_UsernamesUnique ==
  /\ [](\A i \in DOMAIN users, j \in DOMAIN users :
          users[i].username = users[j].username => i = j)
  /\ [][LosesRace =>
          /\ users' = users
          /\ h.kind = "registerUser" => h'.res.success = FALSE
          /\ h.kind = "register" => h'.res.tag = "Error"
       ]_vars

\* A registration passed its exists-check, another writer inserted the
\* username, and the registration's INSERT failed on the constraint.
C23_Witness ==
  /\ h.kind = "register" /\ h.pc = "done"
  /\ h.res = ErrorB(<<UniqueConstraintFailed>>)
  /\ UsernameTaken(h.username) /\ Cardinality(DOMAIN users) = 1

\* getNote or listNotes has finished without both of its resolutions - its
\* own and the one inside getDb - returning an identity.
EndsUnauthenticated ==
  /\ h.kind \in {"getNote", "listNotes"} /\ h.pc = "done"
  /\ ~(IsIdentity(h.user) /\ IsIdentity(h.dbUser))

\* C24: an unauthenticated outcome inside getNote or listNotes, at the
\* accessor's own check or at the check inside getDb, ends in
\* redirect("/login"), never in an empty result.
C24_UnauthenticatedRedirects ==
  EndsUnauthenticated => h.res = Thrown("/login")

\* The user was deleted between the two checks; getNote returned undefined.
C24_Witness ==
  /\ h.kind = "getNote" /\ h.pc = "done" /\ h.res = Returned(<<"undefined">>)
  /\ IsIdentity(h.user) /\ h.dbUser = Null
  /\ sessA.ok /\ SessionIdA = h.user.id /\ SessionIdA \notin DOMAIN users

\* The ids that have no row.
MissingIds == Ids \ DOMAIN users
\* On a working store the lib/auth db functions, called for id, throw "User
\* not found" and leave the users table as it is.
ThrowsNotFound(id) ==
  /\ \A u \in Usernames :
       changeUsername(id, u, FALSE)
         = Outcome(ErrorB(<<"User not found">>), users, FALSE)
  /\ \A p \in Passwords :
       /\ changePassword(id, p, FALSE).res = ErrorB(<<"User not found">>)
       /\ changePassword(id, p, FALSE).users = users
  /\ deleteUser(id, FALSE) = Outcome(ErrorB(<<"User not found">>), users, FALSE)
\* On a working store the auth.ts functions, called for id, return
\* {success: false} with the user-does-not-exist message, table unchanged.
ReturnsNotFound(id) ==
  /\ \A p \in Passwords :
       updateUserPassword(id, p, FALSE)
         = Outcome(Fail(<<"Error, user does not exist">>), users, FALSE)
  /\ deleteUserA(id, FALSE)
       = Outcome(Fail(<<"Error, user does not exist">>), users, FALSE)

\* C25, as stated: changeUsername, changePassword and deleteUser applied to
\* an id that has no row fail with a user-not-found error and leave the
\* users table unchanged.
C25_MissingIdNotFound ==
  \A id \in MissingIds :
    /\ rev = "B" => ThrowsNotFound(id)
    /\ rev = "A" => ReturnsNotFound(id)

\* C25, amended: applied to an id that has no row, updateUserPassword and
\* deleteUser of auth.ts return the user-does-not-exist failure, and - while
\* SUDO_MODE is "true" - changeUsername, changePassword and deleteUser of
\* the lib/auth db module throw "User not found"; the users table is
\* unchanged.
C25_MissingIdNotFoundInSudoMode ==
  \A id \in MissingIds :
    /\ (rev = "B" /\ sudo) => ThrowsNotFound(id)
    /\ rev = "A" => ReturnsNotFound(id)

\* changeUsername has thrown "User not found" for an id without a row while
\* other users exist.
C25_Witness ==
  /\ h.kind = "changeUsername" /\ h.pc = "done"
  /\ h.res = ErrorB(<<"User not found">>)
  /\ sudo /\ h.uid \in MissingIds /\ DOMAIN users # {}

\* Whatever their arguments and whether or not the store would fail, the
\* four functions throw their not-authorized error, have not called
\* hashPassword and leave the users table as it is.
AllNotAuthorized ==
  \A u \in Usernames, p \in Passwords, id \in Ids, f \in BOOLEAN :
    /\ createUser(u, p, f)
         = Outcome(ErrorB(<<"User Registration is not Authorized">>), users, FALSE)
    /\ changeUsername(id, u, f)
         = Outcome(ErrorB(<<"Username Change is not Authorized">>), users, FALSE)
    /\ changePassword(id, p, f)
         = Outcome(ErrorB(<<"Password Change is not Authorized">>), users, FALSE)
    /\ deleteUser(id, f)
         = Outcome(ErrorB(<<"User Removal is not Authorized">>), users, FALSE)

\* C29: while SUDO_MODE is not "true", each of createUser, changeUsername,
\* changePassword and deleteUser throws its not-authorized error, does not
\* call hashPassword and leaves the users table unchanged; no step of the
\* lib/auth deployment changes the table then.
C29_SudoOffNoChange ==
  /\ []((rev = "B" /\ ~sudo) => AllNotAuthorized)
  /\ [][(rev = "B" /\ ~sudo) => users' = users]_vars

\* changePassword was called for an existing user with SUDO_MODE off.
C29_Witness ==
  /\ h.kind = "changePassword" /\ h.pc = "done" /\ ~sudo
  /\ h.res = ErrorB(<<"Password Change is not Authorized">>)
  /\ ~h.hashed /\ h.uid \in DOMAIN users

\* v, a value a read accessor returned, carries no password hash.
NoHashIn(v) == "pass_hash" \notin DOMAIN v
\* v, a password hash handed out, carries neither id nor username.
OnlyHash(v) == DOMAIN v \cap {"id", "username"} = {}

ErrorTextOf(res) ==
  IF res.tag = "result" THEN res.error
  ELSE IF res.tag = "Error" THEN res.message
  ELSE <<>>
\* The result repeats the text of an exception the store threw.
CarriesStoreDetail(res) ==
  \E k \in DOMAIN ErrorTextOf(res) :
    ErrorTextOf(res)[k] \in {SqliteError, UniqueConstraintFailed}

\* C27: the value a login or a registration returns to the client never
\* carries the text of an exception of the store.
C27_NoStoreDetailToClient ==
  (h.kind \in {"registerUser", "loginUser", "login", "register"}
     /\ h.pc = "done")
    => ~CarriesStoreDetail(h.res)

\* loginUser has returned the store's exception text in its error message.
C27_Witness ==
  /\ h.kind = "loginUser" /\ h.pc = "done"
  /\ h.res = LoginError(SqliteError)

\* This step ends a loginOrRegister call.
CompletesLoginOrRegister ==
  h'.kind \in {"login", "register"} /\ h'.pc = "done" /\ h.pc # "done"
\* The row id carries username, and password is its password.
Authenticates(id, username, password) ==
  /\ id \in DOMAIN users /\ users[id].username = username
  /\ verifyPassword(password, users[id].pass_hash)
\* This step has created the row id for username.
NewlyCreated(id, username) ==
  /\ id \notin DOMAIN users /\ id \in DOMAIN users'
  /\ users'[id].username = username
\* What a loginOrRegister call that ends in this step leaves: on success
\* redirect("/") and the session's userId; on failure an Error and the
\* session as it was.
SuccessWritesSession ==
  h'.res = RedirectTo("/") => SessionIdB' = h'.uid /\ sessB'.ok
FailureKeepsSession ==
  h'.res # RedirectTo("/") => h'.res.tag = "Error" /\ sessB' = sessB
WrittenIdIsTheUsers ==
  h'.res = RedirectTo("/") =>
    IF h.kind = "login"
      THEN Authenticates(SessionIdB', h.username, h.password)
      ELSE NewlyCreated(SessionIdB', h.username)

\* C28: loginOrRegister on success sets session.userId to the id of the
\* authenticated or newly created user and returns redirect("/"); on any
\* failure it returns an Error and leaves the session exactly as it was.
C28_LoginOrRegisterFrame ==
  [][CompletesLoginOrRegister =>
       SuccessWritesSession /\ FailureKeepsSession /\ WrittenIdIsTheUsers
    ]_vars

\* A login has succeeded and the session holds an id whose row does not have
\* the presented username and password.
C28_Witness ==
  /\ h.kind = "login" /\ h.pc = "done" /\ h.res = RedirectTo("/")
  /\ SessionIdB = h.uid
  /\ ~Authenticates(SessionIdB, h.username, h.password)

C31_OneAuthDbHandle ==
  /\ authDb.constructed <= 1 /\ authDb.execs <= 1
  /\ \A c \in AuthDbCallers, d \in AuthDbCallers :
       (authDb.at[c] = "returned" /\ authDb.at[d] = "returned")
         => authDb.got[c] = authDb.got[d]

\* Two first calls overlapped: two handles were constructed and the two
\* callers hold different ones.
C31_Witness ==
  /\ authDb.constructed = 2 /\ authDb.execs = 2
  /\ authDb.at["r1"] = "returned" /\ authDb.at["r2"] = "returned"
  /\ authDb.got["r1"] # authDb.got["r2"]

\* This step is a password change of user id to p that has succeeded:
\* changePassword has returned, or updateUserPassword has returned success
\* for a row that is there.
ChangesPasswordB(id, p) ==
  /\ h.kind = "idle" /\ h'.kind = "changePassword" /\ h'.res = Void
  /\ h'.uid = id /\ h'.password = p
ChangesPasswordA(id, p) ==
  /\ h.kind = "updateUserPassword" /\ h.pc = "update" /\ h'.res = Ok
  /\ h.uid = id /\ h.password = p /\ id \in DOMAIN users
\* User id can log in with p and with no other password.
LoginsOnlyWithA(id, p) ==
  /\ id \in DOMAIN users
  /\ \A x \in Passwords : loginUser(users[id].username, x) = Ok <=> x = p
LoginsOnlyWithB(id, p) ==
  /\ id \in DOMAIN users
  /\ \A x \in Passwords :
       login(users[id].username, x) = RedirectTo("/") <=> x = p
\* What the client's session resolves to on a working store.
ResolvedA == ResolveA(sessA, FALSE)
ResolvedB == ResolveB(sessB, FALSE)

C33_WalkthroughSessionOnlyAfterMatch ==
  [][(h.kind = "walkthroughLoginUser" /\ h.pc = "getHash" /\ h'.pc = "done")
       => (sessA' # sessA
             => /\ h.uid \in DOMAIN users
                /\ verifyPassword(h.password, getStoredPasswordHash(h.uid)))
    ]_vars

\* The walkthrough's loginUser has returned success and the session is the
\* named user's, though the submitted password does not match the hash.
C33_Witness ==
  /\ h.kind = "walkthroughLoginUser" /\ h.pc = "done" /\ h.res = Ok
  /\ SessionIdA = h.uid /\ h.uid \in DOMAIN users
  /\ ~verifyPassword(h.password, getStoredPasswordHash(h.uid))

====
